---- MODULE Spec2Model ----
(***************************************************************************)
(* Model of send_template_emails.py: the template loader (load_template),  *)
(* the configuration reader (read_env), the dispatcher (send_email) and    *)
(* the batch caller (main).                                                *)
(*                                                                         *)
(* Text is a sequence of symbols.  A symbol is one character ("{", "}",    *)
(* "=", "#", " ", "\n") or an atom standing for a run of ordinary          *)
(* characters that are neither whitespace nor one of the characters above  *)
(* ("A", "x", "MAILCHIMP_API_KEY", ...).                                   *)
(***************************************************************************)
EXTENDS Integers, Sequences, FiniteSets, TLC

VARIABLES
    pc,          \* which step of the running script comes next
    templates,   \* email-templates/: template name -> file
    envFile,     \* the .env file
    call,        \* arguments of the current call (template_name, variables, ...)
    html,        \* load_template: the rendered text it returned
    env_vars,    \* read_env: the mapping it returned
    raised,      \* exception the current call terminated with ("none" if it returned)
    request,     \* send_email: the payload built at lines 73-81 (NoRequest before)
    posts,       \* number of urlopen POSTs performed by the current send_email call
    response,    \* outcome of the POST of the current call
    ret,         \* send_email: its return value ("none" while running or when it raised)
    printed,     \* send_email: what its progress and verdict lines said
    tmplReads,   \* number of times the current call opened a template file
    success1,    \* main: result of the first send ("none" before)
    success2,    \* main: result of the second send ("none" before)
    exitCode     \* process exit status ("none" while running)

vars == <<pc, templates, envFile, call, html, env_vars, raised, request, posts,
          response, ret, printed, tmplReads, success1, success2, exitCode>>

----------------------------------------------------------------------------
(* Text helpers: Python str methods used by the code.                      *)

\* str.startswith(prefix), also used for "old occurs at the head of s"
startswith(s, prefix) ==
    /\ Len(prefix) <= Len(s)
    /\ SubSeq(s, 1, Len(prefix)) = prefix

\* old in s
Contains(s, old) ==
    \E i \in 1..(Len(s) - Len(old) + 1) : SubSeq(s, i, i + Len(old) - 1) = old

\* str.replace(old, new, 1): only the first occurrence is replaced
RECURSIVE replace_once(_, _, _)
replace_once(s, old, new) ==
    IF Len(s) < Len(old) THEN s
    ELSE IF SubSeq(s, 1, Len(old)) = old
         THEN new \o SubSeq(s, Len(old) + 1, Len(s))
         ELSE <<Head(s)>> \o replace_once(Tail(s), old, new)

\* str.replace(old, new) for a non-empty old: leftmost, non-overlapping, one pass
RECURSIVE replace(_, _, _)
replace(s, old, new) ==
    IF Len(s) < Len(old) THEN s
    ELSE IF startswith(s, old)
         THEN new \o replace(SubSeq(s, Len(old) + 1, Len(s)), old, new)
         ELSE <<Head(s)>> \o replace(Tail(s), old, new)

\* f'{{{{{key}}}}}' : two braces, the key, two braces
Placeholder(key) == <<"{", "{">> \o key \o <<"}", "}">>

----------------------------------------------------------------------------
(* Files.                                                                  *)

File(text)  == [exists |-> TRUE,  readable |-> TRUE,  text |-> text]
MissingFile == [exists |-> FALSE, readable |-> FALSE, text |-> <<>>]
\* exists() is true but open()/read() raises (permissions, a directory,
\* bytes that do not decode); the exception is written "OSError"
UnreadableFile == [exists |-> TRUE, readable |-> FALSE, text |-> <<>>]

----------------------------------------------------------------------------
(* load_template                                                           *)

\* lines 27-28: the loop over variables.items(), in insertion order;
\* variables is the sequence of <<key, value>> pairs of the dict
RECURSIVE ReplaceVariables(_, _)
ReplaceVariables(text, variables) ==
    IF variables = <<>> THEN text
    ELSE ReplaceVariables(
             replace(text, Placeholder(Head(variables)[1]), Head(variables)[2]),
             Tail(variables))

\* lines 13-30; exc is the exception raised, "none" when html is returned
load_template(files, template_name, variables) ==
    LET f == files[template_name] IN
    IF ~f.exists THEN [exc |-> "FileNotFoundError", html |-> <<>>, reads |-> 0]
    ELSE IF ~f.readable THEN [exc |-> "OSError", html |-> <<>>, reads |-> 1]
    ELSE [exc |-> "none", html |-> ReplaceVariables(f.text, variables), reads |-> 1]

----------------------------------------------------------------------------
(* read_env                                                                *)

Whitespace == {" ", "\n"}

\* index of the first occurrence of symbol c in s, 0 when there is none
RECURSIVE find(_, _)
find(s, c) ==
    IF s = <<>> THEN 0
    ELSE IF Head(s) = c THEN 1
    ELSE LET r == find(Tail(s), c) IN IF r = 0 THEN 0 ELSE r + 1

\* str.lstrip()
RECURSIVE lstrip(_)
lstrip(s) ==
    IF s # <<>> /\ Head(s) \in Whitespace THEN lstrip(Tail(s)) ELSE s

\* str.rstrip()
RECURSIVE rstrip(_)
rstrip(s) ==
    IF s # <<>> /\ s[Len(s)] \in Whitespace
    THEN rstrip(SubSeq(s, 1, Len(s) - 1))
    ELSE s

\* str.strip()
strip(s) == rstrip(lstrip(s))

\* line 39, "for line in f": the lines of the file, each with its newline
RECURSIVE Lines(_)
Lines(text) ==
    IF text = <<>> THEN <<>>
    ELSE LET i == find(text, "\n") IN
         IF i = 0 THEN <<text>>
         ELSE <<SubSeq(text, 1, i)>> \o Lines(SubSeq(text, i + 1, Len(text)))

\* index of the last occurrence of symbol c in s, 0 when there is none
rfind(s, c) ==
    LET at == { i \in DOMAIN s : s[i] = c } IN
    IF at = {} THEN 0 ELSE CHOOSE i \in at : \A j \in at : j <= i

\* line.rsplit('=', 1): the split at the last '='
split_last(line) ==
    LET i == rfind(line, "=") IN
    <<SubSeq(line, 1, i - 1), SubSeq(line, i + 1, Len(line))>>

\* line 42, line.split('=', 1) of a line that contains '='
split_first(line) ==
    LET i == find(line, "=") IN
    <<SubSeq(line, 1, i - 1), SubSeq(line, i + 1, Len(line))>>

\* env_vars[key] = value
DictSet(d, key, value) ==
    [k \in (DOMAIN d) \cup {key} |-> IF k = key THEN value ELSE d[k]]

\* dict.get(key, default)
DictGet(d, key, default) == IF key \in DOMAIN d THEN d[key] ELSE default

EmptyDict == [k \in {} |-> <<>>]

\* lines 40-43: one line of the file
EnvLine(d, rawline) ==
    LET line == strip(rawline) IN
    IF line # <<>> /\ ~startswith(line, <<"#">>) /\ find(line, "=") # 0
    THEN LET kv == split_first(line) IN DictSet(d, strip(kv[1]), strip(kv[2]))
    ELSE d

\* lines 39-43: the loop over the lines
RECURSIVE EnvLines(_, _)
EnvLines(d, lines) ==
    IF lines = <<>> THEN d ELSE EnvLines(EnvLine(d, Head(lines)), Tail(lines))

\* lines 32-45; exc is the exception raised, "none" when env_vars is returned
read_env(f) ==
    IF ~f.exists THEN [exc |-> "none", env_vars |-> EmptyDict]
    ELSE IF ~f.readable THEN [exc |-> "OSError", env_vars |-> EmptyDict]
    ELSE [exc |-> "none", env_vars |-> EnvLines(EmptyDict, Lines(f.text))]

----------------------------------------------------------------------------
(* The provider's answers.                                                 *)
(* A JSON value is a record with a type; a field of a JSON object is <<>>  *)
(* when absent, <<"null">> or <<"str", s>> when present.                   *)

MaxResults == 2

Absent    == <<>>
Null      == <<"null">>
Str(s)    == <<"str", s>>

\* Python truth value of a present field
Truthy(v) == v # Absent /\ v # Null /\ v # Str("")

JsonObject(e, i, st) == [type |-> "object", error |-> e, id |-> i, status |-> st]
JsonString(t)        == [type |-> "string", text |-> t]
JsonOther(t)         == [type |-> t]
JsonArray(items)     == [type |-> "array", items |-> items]

ResultObjects ==
    { JsonObject(e, i, st) :
        e  \in {Absent, Null, Str(""), Str("invalid_key")},
        i  \in {Absent, Str("abc123")},
        st \in {Absent, Str("sent")} }

\* what an element of the array can be
Elements ==
    ResultObjects
        \cup {JsonString("rejected"), JsonString("error"),
              JsonOther("number"), JsonOther("null"), JsonArray(<<>>)}

Arrays == { JsonArray(items) : items \in UNION {[1..n -> Elements] : n \in 0..MaxResults} }

Bodies ==
    Arrays \cup {JsonObject(Str("invalid_key"), Absent, Absent),
                 JsonString("ok"), JsonOther("null"), JsonOther("not_json")}

NoResponse == [kind |-> "none"]

\* outcomes of urlopen(req, timeout=10) followed by read/decode/json.loads
Responses ==
    { [kind |-> "ok", body |-> b] : b \in Bodies }
        \cup { [kind |-> "HTTPError", body |-> b] :
                 b \in {"json_message", "json_no_message", "json_not_object",
                        "not_json", "undecodable"} }
        \cup { [kind |-> "URLError"], [kind |-> "timeout"] }

----------------------------------------------------------------------------
(* send_email                                                              *)

MAILCHIMP_API_KEY    == <<"MAILCHIMP_API_KEY">>
MAILCHIMP_FROM_EMAIL == <<"MAILCHIMP_FROM_EMAIL">>

NoRequest == [built |-> FALSE]
NoPrint   == [error |-> "", sending |-> FALSE, sent |-> FALSE,
              message_id |-> Absent, status |-> Absent]

\* the template loaded before the credentials are checked
PreflightTemplateFirst(env_file, files, c) ==
    LET e          == read_env(env_file)
        api_key    == DictGet(e.env_vars, MAILCHIMP_API_KEY, <<>>)
        from_email == DictGet(e.env_vars, MAILCHIMP_FROM_EMAIL, <<>>)
        t          == load_template(files, c.template_name, c.variables)
        stop(exc, r, msg, reads) ==
            [next |-> "return", raised |-> exc, ret |-> r,
             printed |-> [error |-> msg, sending |-> FALSE, sent |-> FALSE,
                          message_id |-> <<>>, status |-> <<>>],
             request |-> [built |-> FALSE], reads |-> reads]
    IN
    IF e.exc # "none" THEN stop(e.exc, "none", "", 0)
    ELSE IF t.exc = "FileNotFoundError"
    THEN stop("none", FALSE, "Template not found", t.reads)
    ELSE IF t.exc # "none" THEN stop(t.exc, "none", "", t.reads)
    ELSE IF api_key = <<>>
    THEN stop("none", FALSE, "MAILCHIMP_API_KEY not found in .env", t.reads)
    ELSE IF from_email = <<>>
    THEN stop("none", FALSE, "MAILCHIMP_FROM_EMAIL not found in .env", t.reads)
    ELSE [next |-> "post", raised |-> "none", ret |-> "none",
          printed |-> [error |-> "", sending |-> TRUE, sent |-> FALSE,
                       message_id |-> <<>>, status |-> <<>>],
          request |-> [built |-> TRUE, key |-> api_key, to |-> c.to_email,
                       from_email |-> from_email, subject |-> c.subject,
                       html |-> t.html],
          reads |-> t.reads]

\* lines 52-88: what the call does before the request is sent.
\* next is "post" when the payload was built, "return" otherwise.
PreflightResult(env_file, files, c) ==
    LET e          == read_env(env_file)
        api_key    == DictGet(e.env_vars, MAILCHIMP_API_KEY, <<>>)
        from_email == DictGet(e.env_vars, MAILCHIMP_FROM_EMAIL, <<>>)
        t          == load_template(files, c.template_name, c.variables)
        stop(exc, r, msg, reads) ==
            [next |-> "return", raised |-> exc, ret |-> r,
             printed |-> [NoPrint EXCEPT !.error = msg],
             request |-> NoRequest, reads |-> reads]
    IN
    IF e.exc # "none" THEN stop(e.exc, "none", "", 0)
    ELSE IF api_key = <<>>
    THEN stop("none", FALSE, "MAILCHIMP_API_KEY not found in .env", 0)
    ELSE IF from_email = <<>>
    THEN stop("none", FALSE, "MAILCHIMP_FROM_EMAIL not found in .env", 0)
    ELSE IF t.exc = "FileNotFoundError"
    THEN stop("none", FALSE, "Template not found", t.reads)
    ELSE IF t.exc # "none" THEN stop(t.exc, "none", "", t.reads)
    ELSE [next |-> "post", raised |-> "none", ret |-> "none",
          printed |-> [NoPrint EXCEPT !.sending = TRUE],
          request |-> [built |-> TRUE, key |-> api_key, to |-> c.to_email,
                       from_email |-> from_email, subject |-> c.subject,
                       html |-> t.html],
          reads |-> t.reads]

\* msg.get(field, default) of a result object
FieldOr(v, default) == IF v = Absent THEN default ELSE v

\* what a return of send_email after the POST leaves behind: the exception
\* it raised ("none" if it returned), the value returned, the lines printed
Outcome(exc, r, msg, sent, id, st) ==
    [raised |-> exc, ret |-> r,
     printed |-> [error |-> msg, sending |-> TRUE, sent |-> sent,
                  message_id |-> id, status |-> st]]

Failure(msg) == Outcome("none", FALSE, msg, FALSE, Absent, Absent)

\* the success line of line 109 was printed, then line 110 raised, and the
\* handler of lines 125-127 returned False
SentThenFailure(msg) == Outcome("none", FALSE, msg, TRUE, Absent, Absent)

\* line 104
ExpectedShape(result) == result.type = "array" /\ Len(result.items) > 0

\* msg = result[-1]
LastResult(result) == result.items[Len(result.items)]

\* line 105: msg = result[0]
FirstResult(result) == result.items[1]

\* lines 106-112, msg a JSON object
ObjectVerdict(msg) ==
    IF Truthy(msg.error)
    THEN Failure(msg.error[2])
    ELSE Outcome("none", TRUE, "", TRUE,
                 FieldOr(msg.id, Str("N/A")), FieldOr(msg.status, Str("queued")))

\* lines 106-112 and 125-127, msg not a JSON object
NonObjectVerdict(msg) ==
    IF msg.type = "string"
    \* 'error' in msg is a substring test on a str
    THEN IF msg.text = "error"
         THEN Failure("TypeError")              \* msg['error'] on a str
         ELSE SentThenFailure("AttributeError") \* msg.get on a str
    ELSE IF msg.type = "array"
    THEN SentThenFailure("AttributeError")      \* 'error' in [] is False
    ELSE Failure("TypeError")                   \* 'error' in 5, in None

\* the else branch returning True
UnexpectedResponseAccepted == Outcome("none", TRUE, "Unexpected response", FALSE, Absent, Absent)

\* lines 113-115
UnexpectedResponse == Failure("Unexpected response")

\* lines 117-124: the HTTPError handler
HTTPErrorVerdict(body) ==
    IF body = "undecodable"
    \* line 118 raises inside the handler: nothing catches it
    THEN Outcome("UnicodeDecodeError", "none", "", FALSE, Absent, Absent)
    ELSE IF body = "json_message" THEN Failure("HTTP: message")
    ELSE IF body = "json_no_message" THEN Failure("HTTP: Unknown error")
    ELSE Failure("HTTP: raw body")

\* lines 102-127: the verdict on the provider's answer
InterpretResult(resp) ==
    IF resp.kind \in {"URLError", "timeout"} THEN Failure(resp.kind)
    ELSE IF resp.kind = "HTTPError" THEN HTTPErrorVerdict(resp.body)
    ELSE LET result == resp.body IN
         IF result.type = "not_json" THEN Failure("JSONDecodeError")
         ELSE IF ExpectedShape(result)
         THEN LET msg == FirstResult(result) IN
              IF msg.type = "object" THEN ObjectVerdict(msg)
              ELSE NonObjectVerdict(msg)
         ELSE UnexpectedResponse

----------------------------------------------------------------------------
(* The script: main calls send_email twice.                                *)

recipient  == <<"john@rokcup.co.za">>
reset_link == <<"https://rokthenats.co.za/reset-password.html?token=test_token_12345&email=">>
                  \o recipient

NoCall == [n |-> 0, to_email |-> <<>>, template_name |-> "", subject |-> "",
           variables |-> <<>>]

\* lines 141-146 and 153-160: the arguments of the two sends
MainCall(n) ==
    IF n = 1
    THEN [n |-> 1, to_email |-> recipient,
          template_name |-> "registration-confirmation",
          subject |-> "Welcome to the 2026 ROK Cup South Africa NATS",
          variables |-> <<>>]
    ELSE [n |-> 2, to_email |-> recipient,
          template_name |-> "password-reset",
          subject |-> "Reset Your NATS Driver Registry Password",
          variables |-> << <<(<<"RESET_LINK">>), reset_link>> >>]

TemplateNames == {"registration-confirmation", "password-reset"}

\* states the template files can be in when the script runs
TemplateSamples ==
    {MissingFile, UnreadableFile,
     File(<<"Reset: ">> \o Placeholder(<<"RESET_LINK">>))}

\* states the .env file can be in when the script runs
EnvSamples ==
    LET key  == MAILCHIMP_API_KEY \o <<"=", "md-key", "\n">>
        from == MAILCHIMP_FROM_EMAIL \o <<"=", "noreply@rokthenats.co.za", "\n">>
    IN {MissingFile, UnreadableFile, File(<<>>),
        File(key), File(from), File(key \o from),
        File(MAILCHIMP_API_KEY \o <<"=", "\n">> \o from),
        File(key \o MAILCHIMP_FROM_EMAIL \o <<" ", "=", " ", "\n">>),
        File(<<"#">> \o key \o from)}

\* lines 141 and 153: main calls send_email
MainSend(n) ==
    /\ pc = IF n = 1 THEN "test1" ELSE "test2"
    /\ call' = MainCall(n)
    /\ pc' = "preflight"
    /\ posts' = 0
    /\ tmplReads' = 0
    /\ request' = NoRequest
    /\ response' = NoResponse
    /\ ret' = "none"
    /\ raised' = "none"
    /\ printed' = NoPrint
    /\ html' = <<>>
    /\ env_vars' = EmptyDict
    /\ UNCHANGED <<templates, envFile, success1, success2, exitCode>>

\* lines 52-88
Preflight ==
    /\ pc = "preflight"
    /\ LET r == PreflightResult(envFile, templates, call) IN
        /\ pc' = r.next
        /\ raised' = r.raised
        /\ ret' = r.ret
        /\ printed' = r.printed
        /\ request' = r.request
        /\ tmplReads' = r.reads
        /\ html' = IF r.request.built THEN r.request.html ELSE html
    /\ env_vars' = read_env(envFile).env_vars
    /\ UNCHANGED <<templates, envFile, call, posts, response,
                   success1, success2, exitCode>>

\* lines 91-102: the one urlopen of the call, and what came back
Post ==
    /\ pc = "post"
    /\ posts' = posts + 1
    /\ \E r \in Responses : response' = r
    /\ pc' = "interpret"
    /\ UNCHANGED <<templates, envFile, call, html, env_vars, raised, request, ret,
                   printed, tmplReads, success1, success2, exitCode>>

\* a second attempt after a timeout or a connection error
InterpretRetry ==
    /\ pc = "interpret"
    /\ LET r == InterpretResult(response) IN
        /\ raised' = r.raised
        /\ ret' = r.ret
        /\ printed' = r.printed
    /\ pc' = IF response.kind \in {"timeout", "URLError"} /\ posts < 2
             THEN "post" ELSE "return"
    /\ UNCHANGED <<templates, envFile, call, html, env_vars, request, posts,
                   response, tmplReads, success1, success2, exitCode>>

\* lines 102-127
Interpret ==
    /\ pc = "interpret"
    /\ LET r == InterpretResult(response) IN
        /\ raised' = r.raised
        /\ ret' = r.ret
        /\ printed' = r.printed
    /\ pc' = "return"
    /\ UNCHANGED <<templates, envFile, call, html, env_vars, request, posts,
                   response, tmplReads, success1, success2, exitCode>>

\* send_email is over: main goes on (lines 141, 153), or the exception
\* leaves main and the handler of lines 178-182 exits with 1
MainReturn ==
    /\ pc = "return"
    /\ IF raised # "none"
       THEN /\ pc' = "exit"
            /\ exitCode' = 1
            /\ UNCHANGED <<success1, success2>>
       ELSE /\ pc' = IF call.n = 1 THEN "test2" ELSE "summary"
            /\ success1' = IF call.n = 1 THEN ret ELSE success1
            /\ success2' = IF call.n = 2 THEN ret ELSE success2
            /\ UNCHANGED exitCode
    /\ UNCHANGED <<templates, envFile, call, html, env_vars, raised, request, posts,
                   response, ret, printed, tmplReads>>

\* lines 169-174, 179
Summary ==
    /\ pc = "summary"
    /\ exitCode' = IF success1 /\ success2 THEN 0 ELSE 1
    /\ pc' = "exit"
    /\ UNCHANGED <<templates, envFile, call, html, env_vars, raised, request, posts,
                   response, ret, printed, tmplReads, success1, success2>>

Init ==
    /\ pc = "test1"
    /\ templates \in [TemplateNames -> TemplateSamples]
    /\ envFile \in EnvSamples
    /\ call = NoCall
    /\ html = <<>>
    /\ env_vars = EmptyDict
    /\ raised = "none"
    /\ request = NoRequest
    /\ posts = 0
    /\ response = NoResponse
    /\ ret = "none"
    /\ printed = NoPrint
    /\ tmplReads = 0
    /\ success1 = "none"
    /\ success2 = "none"
    /\ exitCode = "none"

Next ==
    \/ MainSend(1)
    \/ MainSend(2)
    \/ Preflight
    \/ Post
    \/ Interpret
    \/ MainReturn
    \/ Summary

Spec == Init /\ [][Next]_vars

----------------------------------------------------------------------------
(* load_template on its own: any template text, any bindings.              *)

MaxFrags == 4

\* pieces the template texts are built from
Fragments ==
    {Placeholder(<<"A">>), Placeholder(<<"B">>), <<"{", "{">>, <<"}", "}">>,
     <<"A">>, <<"x">>}

RECURSIVE Flatten(_)
Flatten(ss) == IF ss = <<>> THEN <<>> ELSE Head(ss) \o Flatten(Tail(ss))

TemplateTexts ==
    { Flatten(fs) : fs \in UNION {[1..n -> Fragments] : n \in 0..MaxFrags} }

BindingKeys   == {<<"A">>, <<"B">>}
BindingValues == {<<>>, <<"x">>, Placeholder(<<"A">>), Placeholder(<<"B">>)}

\* the dicts over BindingKeys, as the sequence of their items
Bindings ==
    { b \in UNION {[1..n -> BindingKeys \X BindingValues] : n \in 0..Cardinality(BindingKeys)} :
        \A i, j \in DOMAIN b : i # j => b[i][1] # b[j][1] }

InitTemplate ==
    /\ pc = "load_template"
    /\ \E text \in TemplateTexts : templates = [n \in {"t"} |-> File(text)]
    /\ \E b \in Bindings : call = [NoCall EXCEPT !.template_name = "t", !.variables = b]
    /\ envFile = MissingFile
    /\ html = <<>>
    /\ env_vars = EmptyDict
    /\ raised = "none"
    /\ request = NoRequest
    /\ posts = 0
    /\ response = NoResponse
    /\ ret = "none"
    /\ printed = NoPrint
    /\ tmplReads = 0
    /\ success1 = "none"
    /\ success2 = "none"
    /\ exitCode = "none"

\* a call of load_template(template_name, variables)
LoadTemplate ==
    /\ pc = "load_template"
    /\ LET r == load_template(templates, call.template_name, call.variables) IN
        /\ html' = r.html
        /\ raised' = r.exc
        /\ tmplReads' = r.reads
    /\ pc' = "loaded"
    /\ UNCHANGED <<templates, envFile, call, env_vars, request, posts, response, ret,
                   printed, success1, success2, exitCode>>

NextTemplate == LoadTemplate

SpecTemplate == InitTemplate /\ [][NextTemplate]_vars

----------------------------------------------------------------------------
(* read_env on its own: any content of the .env file.                      *)

MaxEnvLen == 6

EnvSymbols == {" ", "=", "#", "a", "\n"}

EnvTexts == UNION {[1..n -> EnvSymbols] : n \in 0..MaxEnvLen}

InitEnv ==
    /\ pc = "read_env"
    /\ \E text \in EnvTexts : envFile = File(text)
    /\ templates = [n \in {"t"} |-> MissingFile]
    /\ call = NoCall
    /\ html = <<>>
    /\ env_vars = EmptyDict
    /\ raised = "none"
    /\ request = NoRequest
    /\ posts = 0
    /\ response = NoResponse
    /\ ret = "none"
    /\ printed = NoPrint
    /\ tmplReads = 0
    /\ success1 = "none"
    /\ success2 = "none"
    /\ exitCode = "none"

\* a call of read_env()
ReadEnv ==
    /\ pc = "read_env"
    /\ LET r == read_env(envFile) IN
        /\ env_vars' = r.env_vars
        /\ raised' = r.exc
    /\ pc' = "env_read"
    /\ UNCHANGED <<templates, envFile, call, html, request, posts, response, ret,
                   printed, tmplReads, success1, success2, exitCode>>

NextEnv == ReadEnv

SpecEnv == InitEnv /\ [][NextEnv]_vars

----------------------------------------------------------------------------
(* Properties of load_template (checked under SpecTemplate).               *)

TemplateText == templates[call.template_name].text

ItemKeys(b) == { b[i][1] : i \in DOMAIN b }

\* the dict without its i-th item
WithoutItem(b, i) == SubSeq(b, 1, i - 1) \o SubSeq(b, i + 1, Len(b))

Reverse(b) == [i \in 1..Len(b) |-> b[Len(b) + 1 - i]]

BraceFree(s) == \A i \in DOMAIN s : s[i] \notin {"{", "}"}

\* every brace of the text belongs to a placeholder {{NAME}}, NAME without braces
RECURSIVE WellFormedText(_)
WellFormedText(s) ==
    IF s = <<>> THEN TRUE
    ELSE IF Head(s) \notin {"{", "}"} THEN WellFormedText(Tail(s))
    ELSE /\ startswith(s, <<"{", "{">>)
         /\ \E j \in 3..(Len(s) - 1) :
              /\ BraceFree(SubSeq(s, 3, j - 1))
              /\ s[j] = "}" /\ s[j + 1] = "}"
              /\ WellFormedText(SubSeq(s, j + 2, Len(s)))

\* every placeholder of the original text replaced at once, left to right;
\* inserted text is never looked at again
RECURSIVE Simultaneous(_, _)
Simultaneous(s, b) ==
    IF s = <<>> THEN <<>>
    ELSE LET hits == { i \in DOMAIN b : startswith(s, Placeholder(b[i][1])) } IN
         IF hits = {} THEN <<Head(s)>> \o Simultaneous(Tail(s), b)
         ELSE LET i == CHOOSE h \in hits : \A g \in hits : h <= g IN
              b[i][2] \o Simultaneous(SubSeq(s, Len(Placeholder(b[i][1])) + 1, Len(s)), b)

AllKeysAppear == \A k \in ItemKeys(call.variables) : Contains(TemplateText, Placeholder(k))

NoPlaceholderLeft == \A k \in ItemKeys(call.variables) : ~Contains(html, Placeholder(k))

\* C2 as stated: when every key of the bindings occurs in the template as
\* {{key}}, the rendered text contains no {{key}} for any key of the bindings,
\* whatever the replacement values are.
C2_NoPlaceholderLeft ==
    (pc = "loaded" /\ AllKeysAppear) => NoPlaceholderLeft

\* C2 amended: when every key of the bindings occurs in the template as
\* {{key}}, the template is well formed (every brace belongs to a placeholder
\* {{NAME}}) and no replacement value contains a brace, every occurrence is
\* replaced and the rendered text contains no {{key}} for any key of the
\* bindings.
C2_NoPlaceholderLeftWellFormed ==
    (/\ pc = "loaded"
     /\ AllKeysAppear
     /\ WellFormedText(TemplateText)
     /\ \A i \in DOMAIN call.variables : BraceFree(call.variables[i][2]))
        => (NoPlaceholderLeft /\ html = Simultaneous(TemplateText, call.variables))

\* C2 witness: two keys, one of them occurring twice, all replaced
C2_Witness ==
    /\ pc = "loaded"
    /\ TemplateText = Placeholder(<<"A">>) \o Placeholder(<<"B">>) \o Placeholder(<<"A">>)
    /\ call.variables = << <<(<<"A">>), <<"x">> >>, <<(<<"B">>), <<>> >> >>
    /\ html = <<"x", "x">>

\* C3 as stated: a binding whose placeholder does not occur in the template
\* is a no-op, whatever the other bindings are: the rendered text equals the
\* rendering without that binding.
C3_AbsentKeyNoOp ==
    pc = "loaded" =>
        \A i \in DOMAIN call.variables :
            ~Contains(TemplateText, Placeholder(call.variables[i][1]))
                => html = ReplaceVariables(TemplateText, WithoutItem(call.variables, i))

\* C4 as stated: inserted text is never substituted again, so the rendered
\* text is the simultaneous substitution of the placeholders of the original
\* template, and does not depend on the order of the keys.
C4_SimultaneousSubstitution ==
    pc = "loaded" =>
        /\ html = Simultaneous(TemplateText, call.variables)
        /\ html = ReplaceVariables(TemplateText, Reverse(call.variables))

----------------------------------------------------------------------------
(* Properties of read_env (checked under SpecEnv).                         *)

EnvText == envFile.text

\* where the lines of the file start
LineStarts == { i \in DOMAIN EnvText : i = 1 \/ EnvText[i - 1] = "\n" }

\* the line starting at i, without its newline
LineAt(i) ==
    LET stop == { j \in i..Len(EnvText) : EnvText[j] = "\n" }
        last == IF stop = {} THEN Len(EnvText)
                ELSE (CHOOSE j \in stop : \A k \in stop : j <= k) - 1
    IN SubSeq(EnvText, i, last)

\* s without the blanks around it
Trimmed(s) ==
    LET ink == { i \in DOMAIN s : s[i] # " " } IN
    IF ink = {} THEN <<>>
    ELSE SubSeq(s, CHOOSE i \in ink : \A j \in ink : i <= j,
                   CHOOSE i \in ink : \A j \in ink : j <= i)

\* position of the first '=' of s (s contains one)
FirstEq(s) == CHOOSE i \in DOMAIN s : s[i] = "=" /\ \A j \in 1..(i - 1) : s[j] # "="

WellFormedLine(l) ==
    LET t == Trimmed(l) IN
    /\ t # <<>>
    /\ t[1] # "#"
    /\ \E i \in DOMAIN t : t[i] = "="

WellFormedStarts == { i \in LineStarts : WellFormedLine(LineAt(i)) }

KeyAt(i) ==
    LET t == Trimmed(LineAt(i)) IN Trimmed(SubSeq(t, 1, FirstEq(t) - 1))

ValueAt(i) ==
    LET t == Trimmed(LineAt(i)) IN Trimmed(SubSeq(t, FirstEq(t) + 1, Len(t)))

\* the file with only its well-formed lines
RECURSIVE KeepWellFormed(_)
KeepWellFormed(lines) ==
    IF lines = <<>> THEN <<>>
    ELSE (IF WellFormedLine(rstrip(Head(lines)))
          THEN rstrip(Head(lines)) \o <<"\n">> ELSE <<>>)
         \o KeepWellFormed(Tail(lines))

\* C9: read_env returns exactly the mapping of the well-formed lines (not
\* blank, not starting with '#' once trimmed, containing '='): the trimmed
\* text before the first '=' maps to the trimmed text after it, the last
\* such line of a key deciding; the other lines contribute nothing and
\* removing them leaves the mapping unchanged.
C9_ReadEnvMapping ==
    pc = "env_read" =>
        /\ raised = "none"
        /\ DOMAIN env_vars = { KeyAt(i) : i \in WellFormedStarts }
        /\ \A i \in WellFormedStarts :
              (\A j \in WellFormedStarts : j > i => KeyAt(j) # KeyAt(i))
                  => env_vars[KeyAt(i)] = ValueAt(i)
        /\ env_vars = read_env(File(KeepWellFormed(Lines(EnvText)))).env_vars

\* C9 witness: a comment line, then a well-formed line with a blank whose
\* value holds an '='
C9_Witness ==
    /\ pc = "env_read"
    /\ EnvText = <<"#", "\n", "a", "=", " ", "=">>
    /\ env_vars = [k \in {<<"a">>} |-> <<"=">>]

----------------------------------------------------------------------------
(* Properties of send_email and main (checked under Spec).                 *)

\* the credentials the .env file gives ('' when it gives none)
ApiKey    == DictGet(read_env(envFile).env_vars, MAILCHIMP_API_KEY, <<>>)
FromEmail == DictGet(read_env(envFile).env_vars, MAILCHIMP_FROM_EMAIL, <<>>)

TemplateFile == templates[call.template_name]

\* the current call of send_email is over
CallOver == pc = "return"

\* C1 as stated: a call performs no POST when the API key is empty, the
\* sender address is empty or the template does not exist, and exactly one
\* POST otherwise.
C1_PostCountByPreflight ==
    CallOver =>
        posts = IF ApiKey = <<>> \/ FromEmail = <<>> \/ ~TemplateFile.exists
                THEN 0 ELSE 1

\* C1 amended: a call performs no POST when the API key is empty, the sender
\* address is empty, the template does not exist, or reading the .env file
\* or the template file raises; it performs exactly one POST otherwise,
\* whatever the outcome of that POST; at no time has a call performed more
\* than one POST, and the request is built only with both credentials and
\* an existing template.
C1_PostCount ==
    /\ posts <= 1
    /\ request.built =>
          /\ request.key # <<>>
          /\ request.from_email # <<>>
          /\ TemplateFile.exists
    /\ CallOver =>
          posts = IF \/ ApiKey = <<>>
                     \/ FromEmail = <<>>
                     \/ ~TemplateFile.exists
                     \/ (envFile.exists /\ ~envFile.readable)
                     \/ (TemplateFile.exists /\ ~TemplateFile.readable)
                  THEN 0 ELSE 1

\* C1 witness: the one POST timed out and the call is over
C1_Witness ==
    /\ CallOver
    /\ response.kind = "timeout"
    /\ posts = 1
    /\ ret = FALSE

\* the 2xx answer holds a non-empty array whose first element is an object
FirstIsResult ==
    /\ response.kind = "ok"
    /\ response.body.type = "array"
    /\ Len(response.body.items) > 0
    /\ response.body.items[1].type = "object"

\* C5: on a 2xx answer holding a non-empty array of results, the first
\* result decides: a non-empty error makes the call fail with that error;
\* otherwise the call succeeds with the provider's message id and status,
\* the status being "queued" when absent; later results change nothing.
C5_FirstResultDecides ==
    (CallOver /\ FirstIsResult) =>
        LET first == response.body.items[1] IN
        /\ raised = "none"
        /\ IF first.error \notin {Absent, Null, Str("")}
           THEN ret = FALSE /\ printed.error = first.error[2]
           ELSE /\ ret = TRUE
                /\ first.id # Absent => printed.message_id = first.id
                /\ printed.status = IF first.status = Absent THEN Str("queued")
                                    ELSE first.status

\* C5 witness: the first result is accepted, the second one carries an error
C5_Witness ==
    /\ CallOver
    /\ FirstIsResult
    /\ Len(response.body.items) = 2
    /\ response.body.items[1] = JsonObject(Absent, Str("abc123"), Absent)
    /\ response.body.items[2] = JsonObject(Str("invalid_key"), Absent, Absent)
    /\ ret = TRUE
    /\ printed.status = Str("queued")

C7_FirstFailingCheck ==
    (CallOver /\ ~(envFile.exists /\ ~envFile.readable)) =>
        /\ ApiKey = <<>> =>
              /\ ret = FALSE
              /\ printed.error = "MAILCHIMP_API_KEY not found in .env"
              /\ tmplReads = 0 /\ posts = 0
        /\ (ApiKey # <<>> /\ FromEmail = <<>>) =>
              /\ ret = FALSE
              /\ printed.error = "MAILCHIMP_FROM_EMAIL not found in .env"
              /\ tmplReads = 0 /\ posts = 0
        /\ (ApiKey # <<>> /\ FromEmail # <<>> /\ ~TemplateFile.exists) =>
              /\ ret = FALSE
              /\ printed.error = "Template not found"
              /\ posts = 0
        /\ (envFile = MissingFile \/ envFile = File(<<>>)) => ApiKey = <<>>

\* C7 witness: no .env file and no template: the failure names the API key
C7_Witness ==
    /\ CallOver
    /\ envFile = MissingFile
    /\ ~TemplateFile.exists
    /\ printed.error = "MAILCHIMP_API_KEY not found in .env"
    /\ ret = FALSE

\* C8 as stated: every call of send_email ends by returning a verdict, never
\* by an exception.
C8_AlwaysReturnsVerdict ==
    CallOver => (raised = "none" /\ ret \in BOOLEAN)

\* C10 as stated: the second send starts only after the first has returned,
\* it is attempted whatever the outcome of the first, and the exit code is
\* 0 exactly when both sends returned success, 1 otherwise.
C10_SequentialSends ==
    /\ call.n = 2 => success1 \in BOOLEAN
    /\ pc = "exit" =>
          /\ call.n = 2
          /\ exitCode = IF success1 = TRUE /\ success2 = TRUE THEN 0 ELSE 1

====
